---------------------------- MODULE Spec2Model ----------------------------
(***************************************************************************)
(* subscription_notify.py: one invocation of lambda_handler.               *)
(*                                                                         *)
(*   fetch_notion_data -> extract_notion_fields -> filter_for_notifications*)
(*   -> generate_notification_messages -> for each message: print, send.   *)
(*                                                                         *)
(* Conventions.                                                            *)
(*   - Python None is <<>>, any other value v is <<v>> (None / Some(v)).   *)
(*   - A number is kept in tenths (15000.7 is 150007), so that int() of a  *)
(*     fractional cost is something the model computes.  date_remaining is *)
(*     a whole number of days and is kept as such.                         *)
(*   - A string that is compared with < (next_renewal) is a sequence of    *)
(*     one-character strings, ordered by code point as Python orders str.  *)
(*   - SANY reads ASCII only: "W" stands for the won sign U+20A9, "*" for  *)
(*     the bullet U+2022, and the three Korean headers are transliterated. *)
(*   - A rendered block is the sequence of its lines, i.e. the argument of *)
(*     "\n".join(lines); no modelled name or date holds a newline.         *)
(***************************************************************************)
EXTENDS Integers, Sequences, FiniteSets, TLC

VARIABLES
    pc,              \* position in lambda_handler
    PUSHOVER_TOKEN,  \* os.getenv("PUSHOVER_SUBSCRIPTION_TOKEN")
    PUSHOVER_USER,   \* os.getenv("PUSHOVER_USER")
    notion_data,     \* the "results" rows returned by fetch_notion_data
    extracted,       \* result of extract_notion_fields
    due_today,       \* \
    due_soon,        \*  > result of filter_for_notifications
    overdue,         \* /
    messages,        \* result of generate_notification_messages
    idx,             \* position of the for loop over messages (1-based)
    printed,         \* what print() has written, in order
    calls,           \* the requests.post calls made, in order, with their outcome
    raised           \* the exception that left lambda_handler, "" if none

vars == <<pc, PUSHOVER_TOKEN, PUSHOVER_USER, notion_data, extracted, due_today,
          due_soon, overdue, messages, idx, printed, calls, raised>>

-----------------------------------------------------------------------------
(* Bounds of the model.                                                    *)

MaxRows == 3         \* rows in a fetched result set (Spec)
MaxExtractRows == 2  \* rows handed to extract_notion_fields (SpecExtract)
MaxFilterItems == 2  \* records handed to filter_for_notifications (SpecFilter)
MaxSectionItems == 6 \* records of one category (SpecSection)

-----------------------------------------------------------------------------
(* Python values.                                                          *)

None == <<>>
Some(v) == <<v>>

\* x or default
OrElse(x, falsy, default) == IF x = None \/ x = Some(falsy) THEN default ELSE x[1]

\* truthiness of an Optional[str]
Truthy(x) == x # None /\ x # Some("")

Abs(n) == IF n < 0 THEN -n ELSE n

\* int(x) of a number kept in tenths: truncation toward zero
PyInt(tenths) == IF tenths >= 0 THEN tenths \div 10 ELSE -((-tenths) \div 10)

Pad3(m) ==
    IF m < 10 THEN "00" \o ToString(m)
    ELSE IF m < 100 THEN "0" \o ToString(m)
    ELSE ToString(m)

RECURSIVE GroupNat(_)
GroupNat(n) ==
    IF n < 1000 THEN ToString(n)
    ELSE GroupNat(n \div 1000) \o "," \o Pad3(n % 1000)

\* f"{n:,}"
FormatGrouped(n) == IF n < 0 THEN "-" \o GroupNat(-n) ELSE GroupNat(n)

\* code points of the characters the modelled strings are made of
Ord(c) ==
    CASE c = "-" -> 45
      [] c = "0" -> 48
      [] c = "1" -> 49
      [] c = "2" -> 50
      [] c = "3" -> 51
      [] c = "4" -> 52

RECURSIVE StrLessFrom(_, _, _)
\* s[i:] < t[i:] for str s, t that agree before position i
StrLessFrom(s, t, i) ==
    IF i > Len(t) THEN FALSE
    ELSE IF i > Len(s) THEN TRUE
    ELSE IF s[i] = t[i] THEN StrLessFrom(s, t, i + 1)
    ELSE Ord(s[i]) < Ord(t[i])

\* s < t for str
StrLess(s, t) == StrLessFrom(s, t, 1)

RECURSIVE StrOf(_)
\* the characters of s as one string
StrOf(s) == IF s = <<>> THEN "" ELSE Head(s) \o StrOf(Tail(s))

-----------------------------------------------------------------------------
(* extract_notion_fields.                                                  *)
(*                                                                         *)
(* A raw row is its "properties" object, described by what each of the     *)
(* five lookups meets.  For the four subscript chains                      *)
(* (properties["Name"]["title"][0]["plain_text"] and the like) a leaf is   *)
(*   tag "raise": some step of the chain raises (missing key, empty title  *)
(*                list, a level of the wrong type),                        *)
(*   tag "null" : the chain ends in JSON null,                             *)
(*   tag "num" / "str": the chain ends in a number / a string, v.          *)
(* For the .get chain of "Next Renewal" a shape says how many of the keys  *)
(* "Next Renewal", "formula", "date" lead to an object (depth, 0..3) and   *)
(* what the next key then holds (next): "absent" (no such key), "null",    *)
(* or "str" (a string, the start date when depth = 3).                     *)

Leaf(tag, v) == [tag |-> tag, v |-> v]

\* try: x = <chain>  except Exception: x = None
TryChain(leaf) == IF leaf.tag \in {"raise", "null"} THEN None ELSE Some(leaf.v)

RECURSIVE GetChain(_, _)
\* what the first i calls of
\*   properties.get("Next Renewal", {}).get("formula", {}).get("date", {}).get("start", None)
\* evaluate to: "dict" (an object of the row), "default" (the {} default),
\* "null", "str", or "raise" (AttributeError: .get on None or on a str)
GetChain(nr, i) ==
    IF i = 0 THEN "dict"
    ELSE LET prev == GetChain(nr, i - 1)
             dflt == IF i < 4 THEN "default" ELSE "null"
         IN  CASE prev \in {"raise", "null", "str"} -> "raise"
               [] prev = "default" -> dflt
               [] prev = "dict" ->
                    IF i <= nr.depth THEN "dict"
                    ELSE IF nr.next = "absent" THEN dflt
                    ELSE nr.next

NextRenewalRaises(row) == GetChain(row.NextRenewal, 4) = "raise"

NextRenewalOf(row) ==
    IF GetChain(row.NextRenewal, 4) = "str" THEN Some(row.NextRenewal.start) ELSE None

\* int(cost) raises ValueError on a non-numeric string
CostRaises(row) == row.Cost.tag = "str"

\* f"W{int(cost):,}"
FormatCost(cost) == "W" \o FormatGrouped(PyInt(cost))

\* an exception leaves the loop body for this row
RowRaises(row) == CostRaises(row) \/ NextRenewalRaises(row)

\* the dict appended to results for one row (when the body does not raise)
ExtractRow(row) ==
    LET name == TryChain(row.Name)
        cost == TryChain(row.Cost)
        cost_formatted == IF cost # None THEN Some(FormatCost(cost[1])) ELSE None
        date_remaining == TryChain(row.DateRemaining)
        status == TryChain(row.Status)
        next_renewal == NextRenewalOf(row)
    IN  [name |-> name,
         cost |-> cost_formatted,
         cost_raw |-> cost,
         date_remaining |-> date_remaining,
         status |-> status,
         next_renewal |-> next_renewal]

ExtractRaises(rows) == \E i \in 1..Len(rows) : RowRaises(rows[i])

extract_notion_fields(rows) == [i \in 1..Len(rows) |-> ExtractRow(rows[i])]

-----------------------------------------------------------------------------
(* filter_for_notifications.                                               *)

\* mutant: the day-set is every day of the week ahead
allowed_days_whole_week == 1..7

allowed_days == {1, 2, 3, 5, 7}

\* the list the loop body appends item to, "" if none
Classify(item) ==
    IF item.status # Some("Active") THEN ""
    ELSE LET dr == item.date_remaining IN
         IF dr = None THEN ""
         ELSE IF dr[1] < 0 THEN "overdue"
         ELSE IF dr[1] = 0 THEN "due_today"
         ELSE IF dr[1] \in allowed_days THEN "due_soon"
         ELSE ""

InCategory(item, cat) == Classify(item) = cat

filter_for_notifications(items) ==
    [due_today |-> SelectSeq(items, LAMBDA it : InCategory(it, "due_today")),
     due_soon  |-> SelectSeq(items, LAMBDA it : InCategory(it, "due_soon")),
     overdue   |-> SelectSeq(items, LAMBDA it : InCategory(it, "overdue"))]

-----------------------------------------------------------------------------
(* generate_section_message, generate_notification_messages.               *)

HeaderOverdue == "! gyeolje yejeongil-i jinan seobiseu" \o "ga itseumnida!"
HeaderDueToday == "! oneul gyeolje yejeong-in seobiseu" \o "ga itseumnida."
HeaderDueSoon == "(!) iljuil inae gyeolje yejeong-in seobiseuga itseumnida."

PrefixOverdue == "! gyeolje yejeongil-i jinan seobiseu"
PrefixDueToday == "! oneul gyeolje yejeong-in seobiseu"

\* header.startswith(prefix), for the headers generate_notification_messages passes
StartsWith(header, prefix) ==
    \E rest \in {"", "ga itseumnida!", "ga itseumnida."} : header = prefix \o rest

\* mutant: the cost is not negated, so equal dates sort by cost ascending
sort_key_cost_ascending(item) ==
    LET nr == item.next_renewal
        cost_raw == OrElse(item.cost_raw, 0, 0)
    IN  <<(IF nr # None THEN nr[1] ELSE <<>>), cost_raw>>

\* sort_key(item): (nr if nr is not None else "", -cost_raw)
sort_key(item) ==
    LET nr == item.next_renewal
        cost_raw == OrElse(item.cost_raw, 0, 0)
    IN  <<(IF nr # None THEN nr[1] ELSE <<>>), -cost_raw>>

\* k1 < k2 for the key tuples
KeyLess(k1, k2) == StrLess(k1[1], k2[1]) \/ (k1[1] = k2[1] /\ k1[2] < k2[2])

RECURSIVE InsertSorted(_, _)
InsertSorted(s, x) ==
    IF s = <<>> THEN <<x>>
    ELSE IF KeyLess(sort_key(x), sort_key(Head(s))) THEN <<x>> \o s
    ELSE <<Head(s)>> \o InsertSorted(Tail(s), x)

RECURSIVE Sorted(_)
\* sorted(items, key=sort_key): stable
Sorted(items) ==
    IF items = <<>> THEN <<>>
    ELSE InsertSorted(Sorted(SubSeq(items, 1, Len(items) - 1)), items[Len(items)])

DisplayCount == 4

\* mutant: the slice is one too long
DisplayItems_first_five(sorted_items) ==
    SubSeq(sorted_items, 1, IF Len(sorted_items) < DisplayCount + 1
                            THEN Len(sorted_items) ELSE DisplayCount + 1)

\* sorted_items[:4]
DisplayItems(sorted_items) ==
    SubSeq(sorted_items, 1, IF Len(sorted_items) < DisplayCount
                            THEN Len(sorted_items) ELSE DisplayCount)

\* the line appended for one displayed item
ItemLine(header, item) ==
    LET name == OrElse(item.name, "", "")
        cost == OrElse(item.cost, "", "")
        date_remaining == item.date_remaining
        next_renewal == StrOf(OrElse(item.next_renewal, <<>>, <<>>))
    IN  IF StartsWith(header, PrefixOverdue)
        THEN "  * " \o name \o " | " \o cost \o " | D+"
                 \o ToString(Abs(date_remaining[1])) \o " (" \o next_renewal \o ")"
        ELSE IF StartsWith(header, PrefixDueToday)
        THEN "  * " \o name \o " | " \o cost \o " | D-0 (" \o next_renewal \o ")"
        ELSE "  * " \o name \o " | " \o cost \o " | D-"
                 \o ToString(date_remaining[1]) \o " (" \o next_renewal \o ")"

RemainingLine(remaining) == "  * i oe " \o ToString(remaining) \o "gae"

generate_section_message(header, items) ==
    LET sorted_items == Sorted(items)
        display_items == DisplayItems(sorted_items)
        remaining == Len(sorted_items) - Len(display_items)
    IN  <<header>>
        \o [i \in 1..Len(display_items) |-> ItemLine(header, display_items[i])]
        \o (IF remaining > 0 THEN <<RemainingLine(remaining)>> ELSE <<>>)

\* mutant: due_today is rendered before overdue
generate_notification_messages_today_first(ov, dt, ds) ==
    (IF dt # <<>> THEN <<generate_section_message(HeaderDueToday, dt)>> ELSE <<>>)
    \o (IF ov # <<>> THEN <<generate_section_message(HeaderOverdue, ov)>> ELSE <<>>)
    \o (IF ds # <<>> THEN <<generate_section_message(HeaderDueSoon, ds)>> ELSE <<>>)

generate_notification_messages(ov, dt, ds) ==
    (IF ov # <<>> THEN <<generate_section_message(HeaderOverdue, ov)>> ELSE <<>>)
    \o (IF dt # <<>> THEN <<generate_section_message(HeaderDueToday, dt)>> ELSE <<>>)
    \o (IF ds # <<>> THEN <<generate_section_message(HeaderDueSoon, ds)>> ELSE <<>>)

-----------------------------------------------------------------------------
(* Inputs.                                                                 *)

RECURSIVE SeqsUpTo(_, _)
\* the sequences over S of length at most n
SeqsUpTo(S, n) ==
    IF n = 0 THEN {<<>>}
    ELSE LET shorter == SeqsUpTo(S, n - 1)
         IN  shorter \cup {Append(q, x) : q \in {r \in shorter : Len(r) = n - 1}, x \in S}

Date1 == <<"2","0","2","4","-","0","1","-","0","1">>
Date2 == <<"2","0","2","4","-","0","1","-","1","0">>
Date3 == <<"2","0","2","4","-","0","2","-","0","3">>

\* a well-formed "Next Renewal" property with the given start date
RenewalOn(date) == [depth |-> 3, next |-> "str", start |-> date]
\* the shapes of "Next Renewal": every depth, every way the next key can be
RenewalShapes == [depth : 0..3, next : {"absent", "null", "str"}, start : {Date1}]

Row(name, cost, dr, status, nr) ==
    [Name |-> name, Cost |-> cost, DateRemaining |-> dr, Status |-> status,
     NextRenewal |-> nr]

\* rows of a fetched result set: one per category, one in no category, one
\* inactive, one with a fractional cost, one whose formula date is null (what
\* the API returns for a formula that yields no date)
FetchedRows ==
    { Row(Leaf("str", "Netflix"), Leaf("num", 120000), Leaf("num", -3),
          Leaf("str", "Active"), RenewalOn(Date1)),
      Row(Leaf("str", "Music"), Leaf("num", 50000), Leaf("num", 0),
          Leaf("str", "Active"), RenewalOn(Date2)),
      Row(Leaf("str", "Cloud"), Leaf("num", 150007), Leaf("num", 3),
          Leaf("str", "Active"), RenewalOn(Date2)),
      Row(Leaf("str", "News"), Leaf("num", 90000), Leaf("num", 4),
          Leaf("str", "Active"), RenewalOn(Date3)),
      Row(Leaf("raise", ""), Leaf("null", 0), Leaf("num", 0),
          Leaf("str", "Paused"), [depth |-> 0, next |-> "absent", start |-> Date1]),
      Row(Leaf("str", "Gym"), Leaf("num", 300000), Leaf("num", 1),
          Leaf("str", "Active"), [depth |-> 2, next |-> "null", start |-> Date1]) }

\* rows for extract_notion_fields alone: every shape of "Name", "Cost",
\* "Date Remaining" and "Next Renewal" together, and every shape of "Status"
ExtractRows ==
    { Row(name, cost, dr, Leaf("str", "Active"), nr) :
        name \in {Leaf("raise", ""), Leaf("str", "Netflix")},
        cost \in {Leaf("raise", 0), Leaf("null", 0), Leaf("str", 0),
                  Leaf("num", 150000), Leaf("num", 150007), Leaf("num", 9997),
                  Leaf("num", -12347)},
        dr \in {Leaf("raise", 0), Leaf("num", 2)},
        nr \in RenewalShapes }
    \cup
    { Row(Leaf("str", "Netflix"), Leaf("num", 150000), Leaf("num", 2), status,
          RenewalOn(Date1)) :
        status \in {Leaf("raise", ""), Leaf("null", "")} }

Item(name, cost_raw, dr, status, nr) ==
    [name |-> name,
     cost |-> IF cost_raw # None THEN Some(FormatCost(cost_raw[1])) ELSE None,
     cost_raw |-> cost_raw,
     date_remaining |-> dr,
     status |-> status,
     next_renewal |-> nr]

\* normalized records for filter_for_notifications alone
FilterItems ==
    { Item(Some("S"), Some(50000), dr, status, Some(Date1)) :
        dr \in {None} \cup {Some(d) : d \in -2..9},
        status \in {None, Some("Active"), Some("active"), Some("Paused")} }

\* records of one category, for generate_section_message alone: no date,
\* two dates, and on each date two costs (one of them absent or negative)
SectionItems(dr) ==
    { Item(Some("A"), Some(50000), Some(dr), Some("Active"), None),
      Item(Some("B"), Some(50000), Some(dr), Some("Active"), Some(Date2)),
      Item(Some("C"), Some(90000), Some(dr), Some("Active"), Some(Date2)),
      Item(Some("D"), None, Some(dr), Some("Active"), Some(Date1)),
      Item(None, Some(-10000), Some(dr), Some("Active"), Some(Date1)) }

Credentials == {None, Some(""), Some("secret")}

-----------------------------------------------------------------------------
(* lambda_handler.                                                         *)

\* the call requests.post(url, headers=NOTION_HEADERS) of fetch_notion_data;
\* ok: it returned and raise_for_status did not raise
FetchCall(ok) == [op |-> "fetch", ok |-> ok, token |-> None, user |-> None,
                  message |-> <<>>]

Init ==
    /\ pc = "start"
    /\ PUSHOVER_TOKEN \in Credentials
    /\ PUSHOVER_USER \in Credentials
    /\ notion_data = <<>>
    /\ extracted = <<>>
    /\ due_today = <<>>
    /\ due_soon = <<>>
    /\ overdue = <<>>
    /\ messages = <<>>
    /\ idx = 1
    /\ printed = <<>>
    /\ calls = <<>>
    /\ raised = ""

\* notion_data = fetch_notion_data(): the request succeeds
FetchOk ==
    /\ pc = "start"
    /\ \E rows \in SeqsUpTo(FetchedRows, MaxRows) : notion_data' = rows
    /\ calls' = Append(calls, FetchCall(TRUE))
    /\ pc' = "fetched"
    /\ UNCHANGED <<PUSHOVER_TOKEN, PUSHOVER_USER, extracted, due_today, due_soon,
                   overdue, messages, idx, printed, raised>>

\* mutant: the failure is caught and the run goes on with no rows
FetchRaise_swallowed ==
    /\ pc = "start"
    /\ calls' = Append(calls, FetchCall(FALSE))
    /\ notion_data' = <<>>
    /\ pc' = "fetched"
    /\ UNCHANGED <<PUSHOVER_TOKEN, PUSHOVER_USER, extracted, due_today, due_soon,
                   overdue, messages, idx, printed, raised>>

\* fetch_notion_data(): requests.post or raise_for_status raises
FetchRaise ==
    /\ pc = "start"
    /\ calls' = Append(calls, FetchCall(FALSE))
    /\ raised' = "fetch"
    /\ pc' = "raised"
    /\ UNCHANGED <<PUSHOVER_TOKEN, PUSHOVER_USER, notion_data, extracted, due_today,
                   due_soon, overdue, messages, idx, printed>>

\* extracted = extract_notion_fields(notion_data)
Extract ==
    /\ pc = "fetched"
    /\ IF ExtractRaises(notion_data)
       THEN /\ raised' = "extract"
            /\ pc' = "raised"
            /\ UNCHANGED extracted
       ELSE /\ extracted' = extract_notion_fields(notion_data)
            /\ pc' = "extracted"
            /\ UNCHANGED raised
    /\ UNCHANGED <<PUSHOVER_TOKEN, PUSHOVER_USER, notion_data, due_today, due_soon,
                   overdue, messages, idx, printed, calls>>

\* due_today, due_soon, overdue = filter_for_notifications(extracted)
Filter ==
    /\ pc = "extracted"
    /\ LET r == filter_for_notifications(extracted)
       IN  /\ due_today' = r.due_today
           /\ due_soon' = r.due_soon
           /\ overdue' = r.overdue
    /\ pc' = "filtered"
    /\ UNCHANGED <<PUSHOVER_TOKEN, PUSHOVER_USER, notion_data, extracted, messages,
                   idx, printed, calls, raised>>

\* messages = generate_notification_messages(overdue, due_today, due_soon)
Generate ==
    /\ pc = "filtered"
    /\ messages' = generate_notification_messages(overdue, due_today, due_soon)
    /\ pc' = "loop"
    /\ UNCHANGED <<PUSHOVER_TOKEN, PUSHOVER_USER, notion_data, extracted, due_today,
                   due_soon, overdue, idx, printed, calls, raised>>

\* print("\n" + message)
PrintMessage ==
    /\ pc = "loop"
    /\ idx <= Len(messages)
    /\ printed' = Append(printed, messages[idx])
    /\ pc' = "printed"
    /\ UNCHANGED <<PUSHOVER_TOKEN, PUSHOVER_USER, notion_data, extracted, due_today,
                   due_soon, overdue, messages, idx, calls, raised>>

\* mutant: one credential is enough
CredentialsSet_either == Truthy(PUSHOVER_TOKEN) \/ Truthy(PUSHOVER_USER)

\* if PUSHOVER_TOKEN and PUSHOVER_USER:
CredentialsSet == Truthy(PUSHOVER_TOKEN) /\ Truthy(PUSHOVER_USER)

\* the call send_pushover_message(PUSHOVER_TOKEN, PUSHOVER_USER, message);
\* ok: requests.post returned and raise_for_status did not raise
SendCall(ok) == [op |-> "send", ok |-> ok, token |-> PUSHOVER_TOKEN,
                 user |-> PUSHOVER_USER, message |-> messages[idx]]

\* send_pushover_message returns: next iteration
SendOk ==
    /\ pc = "printed"
    /\ CredentialsSet
    /\ calls' = Append(calls, SendCall(TRUE))
    /\ idx' = idx + 1
    /\ pc' = "loop"
    /\ UNCHANGED <<PUSHOVER_TOKEN, PUSHOVER_USER, notion_data, extracted, due_today,
                   due_soon, overdue, messages, printed, raised>>

\* mutant: the failure is caught and the loop goes on
SendRaise_swallowed ==
    /\ pc = "printed"
    /\ CredentialsSet
    /\ calls' = Append(calls, SendCall(FALSE))
    /\ idx' = idx + 1
    /\ pc' = "loop"
    /\ UNCHANGED <<PUSHOVER_TOKEN, PUSHOVER_USER, notion_data, extracted, due_today,
                   due_soon, overdue, messages, printed, raised>>

\* send_pushover_message: requests.post or raise_for_status raises
SendRaise ==
    /\ pc = "printed"
    /\ CredentialsSet
    /\ calls' = Append(calls, SendCall(FALSE))
    /\ raised' = "send"
    /\ pc' = "raised"
    /\ UNCHANGED <<PUSHOVER_TOKEN, PUSHOVER_USER, notion_data, extracted, due_today,
                   due_soon, overdue, messages, idx, printed>>

\* the if is false: next iteration without a send
SkipSend ==
    /\ pc = "printed"
    /\ ~CredentialsSet
    /\ idx' = idx + 1
    /\ pc' = "loop"
    /\ UNCHANGED <<PUSHOVER_TOKEN, PUSHOVER_USER, notion_data, extracted, due_today,
                   due_soon, overdue, messages, printed, calls, raised>>

\* the for loop is exhausted: lambda_handler returns
Return ==
    /\ pc = "loop"
    /\ idx > Len(messages)
    /\ pc' = "done"
    /\ UNCHANGED <<PUSHOVER_TOKEN, PUSHOVER_USER, notion_data, extracted, due_today,
                   due_soon, overdue, messages, idx, printed, calls, raised>>

Next ==
    \/ FetchOk
    \/ FetchRaise
    \/ Extract
    \/ Filter
    \/ Generate
    \/ PrintMessage
    \/ SendOk
    \/ SendRaise
    \/ SkipSend
    \/ Return

Spec == Init /\ [][Next]_vars

-----------------------------------------------------------------------------
(* The pure steps alone, on inputs drawn from wider sets.                  *)

InitAt(position) ==
    /\ pc = position
    /\ PUSHOVER_TOKEN = None
    /\ PUSHOVER_USER = None
    /\ idx = 1
    /\ printed = <<>>
    /\ calls = <<FetchCall(TRUE)>>
    /\ raised = ""
    /\ messages = <<>>

InitExtract ==
    /\ InitAt("fetched")
    /\ notion_data \in SeqsUpTo(ExtractRows, MaxExtractRows)
    /\ extracted = <<>>
    /\ due_today = <<>>
    /\ due_soon = <<>>
    /\ overdue = <<>>

NextExtract == Extract

SpecExtract == InitExtract /\ [][NextExtract]_vars

InitFilter ==
    /\ InitAt("extracted")
    /\ notion_data = <<>>
    /\ extracted \in SeqsUpTo(FilterItems, MaxFilterItems)
    /\ due_today = <<>>
    /\ due_soon = <<>>
    /\ overdue = <<>>

NextFilter == Filter

SpecFilter == InitFilter /\ [][NextFilter]_vars

InitSection ==
    /\ InitAt("filtered")
    /\ notion_data = <<>>
    /\ extracted = <<>>
    /\ \/ /\ overdue \in SeqsUpTo(SectionItems(-3), MaxSectionItems)
          /\ due_today = <<>>
          /\ due_soon = <<>>
       \/ /\ overdue = <<>>
          /\ due_today \in SeqsUpTo(SectionItems(0), MaxSectionItems)
          /\ due_soon = <<>>
       \/ /\ overdue = <<>>
          /\ due_today = <<>>
          /\ due_soon \in SeqsUpTo(SectionItems(5), MaxSectionItems)

NextSection == Generate

SpecSection == InitSection /\ [][NextSection]_vars

-----------------------------------------------------------------------------
(* Vocabulary of the properties.                                           *)

Min(a, b) == IF a < b THEN a ELSE b

Range(q) == {q[i] : i \in 1..Len(q)}

\* lambda_handler has returned or an exception has left it
Terminated == pc \in {"done", "raised"}

\* filter_for_notifications has returned
Filtered == pc \in {"filtered", "loop", "printed", "done"} \/ raised = "send"

\* generate_notification_messages has returned
Generated == pc \in {"loop", "printed", "done"} \/ raised = "send"

\* the send calls among the calls made
Sends == SelectSeq(calls, LAMBDA c : c.op = "send")

\* the category lists that are not empty, with their headers, in the order
\* overdue, due_today, due_soon
NonEmptySections ==
    SelectSeq(<<[header |-> HeaderOverdue, items |-> overdue],
                [header |-> HeaderDueToday, items |-> due_today],
                [header |-> HeaderDueSoon, items |-> due_soon]>>,
              LAMBDA sec : sec.items # <<>>)

-----------------------------------------------------------------------------
(* C1: the three lists returned by filter_for_notifications are pairwise   *)
(* disjoint; overdue holds exactly the input records with status "Active"  *)
(* and a present date_remaining < 0, due_today those with date_remaining   *)
(* = 0, due_soon those with date_remaining in {1,2,3,5,7}, each in input   *)
(* order; an Active record with any other positive date_remaining is in    *)
(* none of the three.                                                      *)

EligibleDays == {1, 2, 3, 5, 7}

IsActiveWithDays(item) == item.status = Some("Active") /\ item.date_remaining # None

C1_FilterPartition ==
    Filtered =>
        /\ overdue = SelectSeq(extracted,
               LAMBDA it : IsActiveWithDays(it) /\ it.date_remaining[1] < 0)
        /\ due_today = SelectSeq(extracted,
               LAMBDA it : IsActiveWithDays(it) /\ it.date_remaining[1] = 0)
        /\ due_soon = SelectSeq(extracted,
               LAMBDA it : IsActiveWithDays(it) /\ it.date_remaining[1] \in EligibleDays)
        /\ Range(overdue) \cap Range(due_today) = {}
        /\ Range(overdue) \cap Range(due_soon) = {}
        /\ Range(due_today) \cap Range(due_soon) = {}
        /\ Range(overdue) \cup Range(due_today) \cup Range(due_soon) =
               {it \in Range(extracted) :
                    /\ IsActiveWithDays(it)
                    /\ \/ it.date_remaining[1] <= 0
                       \/ it.date_remaining[1] \in EligibleDays}
        /\ \A it \in Range(extracted) :
               IsActiveWithDays(it) /\ it.date_remaining[1] \in {4, 6, 8, 9} =>
                   it \notin Range(overdue) \cup Range(due_today) \cup Range(due_soon)

\* an Active record due in 4 days is dropped next to one that is overdue
C1_Witness ==
    /\ pc = "filtered"
    /\ Len(extracted) = 2
    /\ extracted[1].status = Some("Active") /\ extracted[1].date_remaining = Some(4)
    /\ Len(overdue) = 1
    /\ due_today = <<>> /\ due_soon = <<>>

-----------------------------------------------------------------------------
(* C5: generate_notification_messages returns exactly one block per        *)
(* non-empty category and none for an empty one, no block is a header      *)
(* alone, and the blocks come in the order overdue, due_today, due_soon,   *)
(* each starting with its own header, the three headers being distinct.    *)

C5_BlocksPerCategory ==
    Generated =>
        /\ Len(messages) = Len(NonEmptySections)
        /\ \A i \in 1..Len(messages) :
               /\ messages[i][1] = NonEmptySections[i].header
               /\ Len(messages[i]) >= 2
        /\ Cardinality({HeaderOverdue, HeaderDueToday, HeaderDueSoon}) = 3
        /\ (overdue = <<>> => \A i \in 1..Len(messages) : messages[i][1] # HeaderOverdue)
        /\ (due_today = <<>> => \A i \in 1..Len(messages) : messages[i][1] # HeaderDueToday)
        /\ (due_soon = <<>> => \A i \in 1..Len(messages) : messages[i][1] # HeaderDueSoon)

\* all three categories are populated: three blocks, in the fixed order
C5_Witness ==
    /\ pc = "loop"
    /\ overdue # <<>> /\ due_today # <<>> /\ due_soon # <<>>
    /\ Len(messages) = 3
    /\ messages[1][1] = HeaderOverdue
    /\ messages[3][1] = HeaderDueSoon

-----------------------------------------------------------------------------
(* C6: for a category of n >= 1 records the block is the header line,      *)
(* then min(n, 4) record lines, then the line "  * i oe {n-4}gae" if and   *)
(* only if n > 4; the record lines and the overflow count account for all  *)
(* n records.                                                              *)

\* the text of a record line of some record of items, under header
IsRecordLine(line, header, items) ==
    \E it \in Range(items) : line = ItemLine(header, it)

C6_BlockShape ==
    Generated /\ Len(messages) = Len(NonEmptySections) =>
        \A i \in 1..Len(messages) :
            LET block == messages[i]
                sec == NonEmptySections[i]
                n == Len(sec.items)
                shown == Min(n, 4)
            IN  /\ block[1] = sec.header
                /\ Len(block) = 1 + shown + (IF n > 4 THEN 1 ELSE 0)
                /\ \A k \in 2..(1 + shown) : IsRecordLine(block[k], sec.header, sec.items)
                /\ n > 4 =>
                       /\ block[Len(block)] = "  * i oe " \o ToString(n - 4) \o "gae"
                       /\ shown + (n - 4) = n
                /\ n <= 4 => Len(block) = 1 + n

\* six records: four record lines and the overflow line for the other two
C6_Witness ==
    /\ pc = "loop"
    /\ Len(due_soon) = 6
    /\ Len(messages) = 1
    /\ Len(messages[1]) = 6
    /\ messages[1][6] = "  * i oe 2gae"

-----------------------------------------------------------------------------
(* C7: the record lines of a block are ordered by next_renewal ascending,  *)
(* an absent next_renewal before every date, and among equal next_renewal  *)
(* by cost_raw descending, an absent cost_raw counting as zero; the        *)
(* records shown are the smallest under this order, whatever their place   *)
(* in the input.                                                           *)

\* a comes strictly before b in the order of the claim
ComesBefore(a, b) ==
    LET da == a.next_renewal
        db == b.next_renewal
        ca == IF a.cost_raw = None THEN 0 ELSE a.cost_raw[1]
        cb == IF b.cost_raw = None THEN 0 ELSE b.cost_raw[1]
    IN  \/ da = None /\ db # None
        \/ da # None /\ db # None /\ StrLess(da[1], db[1])
        \/ da = db /\ ca > cb

\* shownItems are in the order of the claim, and no record of items left
\* out of them comes before one of them
SmallestInOrder(shownItems, items) ==
    /\ \A j, k \in 1..Len(shownItems) :
           j < k => ~ComesBefore(shownItems[k], shownItems[j])
    /\ \A x \in Range(items) :
           LET inInput == Cardinality({j \in 1..Len(items) : items[j] = x})
               inBlock == Cardinality({k \in 1..Len(shownItems) : shownItems[k] = x})
           IN  /\ inBlock <= inInput
               /\ inBlock < inInput =>
                      \A k \in 1..Len(shownItems) : ~ComesBefore(x, shownItems[k])

C7_SortOrder ==
    Generated /\ Len(messages) = Len(NonEmptySections) =>
        \A i \in 1..Len(messages) :
            LET block == messages[i]
                sec == NonEmptySections[i]
                shown == Min(Len(sec.items), 4)
            IN  /\ Len(block) >= 1 + shown
                /\ \A k \in 1..shown : IsRecordLine(block[k + 1], sec.header, sec.items)
                \* the record each record line was rendered from (the records
                \* of the inputs render to different lines)
                /\ \A shownItems \in
                       {[k \in 1..shown |->
                            CHOOSE x \in Range(sec.items) :
                                ItemLine(sec.header, x) = block[k + 1]]} :
                       SmallestInOrder(shownItems, sec.items)

\* six records, the last two of the input are shown first, and of two records
\* renewing the same day the one costing 9000 is shown before the one costing 5000
C7_Witness ==
    /\ pc = "loop"
    /\ Len(due_soon) = 6
    /\ \A j \in 1..3 : due_soon[j].name = Some("B")
    /\ due_soon[4].name = Some("C")
    /\ due_soon[5].name = Some("D")
    /\ due_soon[6].name = Some("A")
    /\ messages[1] = << HeaderDueSoon,
                        "  * A | W5,000 | D-5 ()",
                        "  * D |  | D-5 (2024-01-01)",
                        "  * C | W9,000 | D-5 (2024-01-10)",
                        "  * B | W5,000 | D-5 (2024-01-10)",
                        "  * i oe 2gae" >>

-----------------------------------------------------------------------------
(* C2: extract_notion_fields never fails: whatever level of whatever       *)
(* property is missing, null or of the wrong shape, it returns one record  *)
(* per raw row, with exactly the affected fields absent and the others     *)
(* populated.                                                              *)

C2_ExtractNeverFails ==
    pc # "fetched" =>
        /\ raised # "extract"
        /\ Len(extracted) = Len(notion_data)
        /\ \A i \in 1..Len(notion_data) :
               LET row == notion_data[i]
                   rec == extracted[i]
               IN  /\ rec.name # None <=> row.Name.tag = "str"
                   /\ rec.cost_raw # None <=> row.Cost.tag = "num"
                   /\ rec.date_remaining # None <=> row.DateRemaining.tag = "num"
                   /\ rec.status # None <=> row.Status.tag = "str"
                   /\ rec.next_renewal # None <=>
                          row.NextRenewal.depth = 3 /\ row.NextRenewal.next = "str"

-----------------------------------------------------------------------------
(* C8: in every extracted record the "cost" field is present if and only   *)
(* if cost_raw is, and is then "W" followed by the thousands-grouped       *)
(* digits of cost_raw rounded to the nearest integer.                      *)

\* the integer nearest to a number kept in tenths
RoundNearest(tenths) == (tenths + 5) \div 10

C8_CostDisplayRounded ==
    pc = "extracted" =>
        \A i \in 1..Len(extracted) :
            LET rec == extracted[i]
            IN  /\ rec.cost = None <=> rec.cost_raw = None
                /\ rec.cost_raw # None =>
                       rec.cost = Some("W" \o FormatGrouped(RoundNearest(rec.cost_raw[1])))

-----------------------------------------------------------------------------
(* C3: when the fetch succeeds, every block generate_notification_messages *)
(* produced has been printed by the time lambda_handler ends, whether or   *)
(* not the credentials are set and whether or not a send succeeds.         *)

C3_EveryBlockPrinted ==
    Terminated /\ Generated => printed = messages

-----------------------------------------------------------------------------
(* C4: an invocation makes at most one fetch call; every send call comes   *)
(* after the successful fetch and after the print of the block it carries; *)
(* with both credentials set and no failing send, lambda_handler ends with *)
(* exactly one send per non-empty category (at most three), carrying that  *)
(* category's block, in the order overdue, due_today, due_soon; with a     *)
(* credential absent (or empty) no send call is made.                      *)

IsSet(credential) == credential # None /\ credential # Some("")

C4_FetchThenSends ==
    /\ Cardinality({i \in 1..Len(calls) : calls[i].op = "fetch"}) <= 1
    /\ \A i \in 1..Len(calls) :
           calls[i].op = "send" => i > 1 /\ calls[1].op = "fetch" /\ calls[1].ok
    /\ Len(Sends) <= Len(printed)
    /\ \A i \in 1..Len(Sends) :
           /\ Sends[i].message = printed[i]
           /\ Sends[i].token = PUSHOVER_TOKEN
           /\ Sends[i].user = PUSHOVER_USER
    /\ ~(IsSet(PUSHOVER_TOKEN) /\ IsSet(PUSHOVER_USER)) => Sends = <<>>
    /\ pc = "done" /\ IsSet(PUSHOVER_TOKEN) /\ IsSet(PUSHOVER_USER) =>
           /\ Len(Sends) = Len(NonEmptySections)
           /\ Len(Sends) <= 3
           /\ \A i \in 1..Len(Sends) :
                  /\ Sends[i].ok
                  /\ Sends[i].message = messages[i]
                  /\ Sends[i].message[1] = NonEmptySections[i].header

\* three populated categories, both credentials set: three sends
C4_Witness ==
    /\ pc = "done"
    /\ Len(Sends) = 3
    /\ Sends[1].message[1] = HeaderOverdue
    /\ Sends[2].message[1] = HeaderDueToday
    /\ Sends[3].message[1] = HeaderDueSoon

-----------------------------------------------------------------------------
(* C9: if the fetch call fails, lambda_handler ends with that error and    *)
(* has processed nothing: no block is printed and no send call is made.    *)

FetchFailed == \E i \in 1..Len(calls) : calls[i].op = "fetch" /\ ~calls[i].ok

C9_FetchFailureAborts ==
    FetchFailed =>
        /\ pc = "raised"
        /\ raised = "fetch"
        /\ printed = <<>>
        /\ Sends = <<>>
        /\ Len(calls) = 1
        /\ extracted = <<>> /\ messages = <<>>

C9_Witness == FetchFailed /\ pc = "raised" /\ raised = "fetch"

-----------------------------------------------------------------------------
(* C10: a failing send call is not swallowed: it leaves lambda_handler as  *)
(* an error, and no later send call is made (the first failing send is the *)
(* last call).                                                             *)

C10_SendFailureAborts ==
    \A i \in 1..Len(calls) :
        calls[i].op = "send" /\ ~calls[i].ok =>
            /\ i = Len(calls)
            /\ pc = "raised"
            /\ raised = "send"

\* the second of three sends fails: the third block is never sent
C10_Witness ==
    /\ pc = "raised"
    /\ raised = "send"
    /\ Len(messages) = 3
    /\ Len(Sends) = 2
    /\ Sends[1].ok /\ ~Sends[2].ok

=============================================================================
